---- MODULE Spec2Model ----
(***************************************************************************)
(* State-machine model of the EIA diesel fuel rate loader.                 *)
(*                                                                         *)
(*   src/FetchFuelRates/__init__.py        timer-triggered orchestrator    *)
(*   src/fetch_fuel_rates.py               pipeline ("root")               *)
(*   src/FetchFuelRates/fetch_fuel_rates.py  older pipeline ("legacy")     *)
(*                                                                         *)
(* Calendar dates are proleptic Gregorian ordinals (date.toordinal()),     *)
(* strings are sequences of one-character strings, prices are hundredths.  *)
(***************************************************************************)
EXTENDS Integers, Sequences, FiniteSets, Bags, TLC

\* ------------------------------------------------------------------ bounds
MinYear == 2023
MaxYear == 2024
MaxRuns == 2

\* ---------------------------------------------------------------- calendar
IsLeap(y) == (y % 4 = 0) /\ ((y % 100 # 0) \/ (y % 400 = 0))

DAYS_IN_MONTH == <<31, 28, 31, 30, 31, 30, 31, 31, 30, 31, 30, 31>>

DAYS_BEFORE_MONTH == <<0, 31, 59, 90, 120, 151, 181, 212, 243, 273, 304, 334>>

\* calendar.monthrange(year, month)[1]
MonthRange(y, m) == IF m = 2 /\ IsLeap(y) THEN 29 ELSE DAYS_IN_MONTH[m]

RECURSIVE DaysBeforeMonth(_, _)
DaysBeforeMonth(y, m) ==
    IF m = 1 THEN 0 ELSE DaysBeforeMonth(y, m - 1) + MonthRange(y, m - 1)

DaysBeforeYear(y) ==
    LET p == y - 1 IN p * 365 + (p \div 4) - (p \div 100) + (p \div 400)

\* date(y, m, d).toordinal()
ToOrdinal(y, m, d) == DaysBeforeYear(y) + DaysBeforeMonth(y, m) + d

\* date(y, m, d) is constructible
ValidYmd(y, m, d) ==
    /\ y \in 1..9999
    /\ m \in 1..12
    /\ d \in 1..MonthRange(y, m)

\* date.fromordinal(n) as <<year, month, day>>
FromOrdinal(n) ==
    LET n0   == n - 1
        n400 == n0 \div 146097
        r400 == n0 % 146097
        n100 == r400 \div 36524
        r100 == r400 % 36524
        n4   == r100 \div 1461
        r4   == r100 % 1461
        n1   == r4 \div 365
        r1   == r4 % 365
        year == n400 * 400 + 1 + n100 * 100 + n4 * 4 + n1
    IN  IF n1 = 4 \/ n100 = 4
        THEN <<year - 1, 12, 31>>
        ELSE LET leap  == n1 = 3 /\ (n4 # 24 \/ n100 = 3)
                 lp(m) == IF m > 2 /\ leap THEN 1 ELSE 0
                 dbm(m) == DAYS_BEFORE_MONTH[m] + lp(m)
                 m0    == (r1 + 50) \div 32
                 month == IF dbm(m0) > r1 THEN m0 - 1 ELSE m0
             IN  <<year, month, r1 - dbm(month) + 1>>

YearOf(dt)  == FromOrdinal(dt)[1]
MonthOf(dt) == FromOrdinal(dt)[2]
DayOf(dt)   == FromOrdinal(dt)[3]

\* date.replace(day=d)
ReplaceDay(dt, d) == ToOrdinal(YearOf(dt), MonthOf(dt), d)

\* date.weekday(): Monday = 0
Weekday(dt) == (dt + 6) % 7

\* ----------------------------------------------------------------- strings
DigitChars == <<"0", "1", "2", "3", "4", "5", "6", "7", "8", "9">>

IsDigit(c) == \E i \in 1..10 : DigitChars[i] = c

DigitVal(c) == (CHOOSE i \in 1..10 : DigitChars[i] = c) - 1

Contains(s, c) == \E i \in 1..Len(s) : s[i] = c

Pad2(n) == <<DigitChars[((n \div 10) % 10) + 1], DigitChars[(n % 10) + 1]>>

Pad4(n) == Pad2(n \div 100) \o Pad2(n % 100)

\* date.isoformat()
IsoFormat(dt) ==
    Pad4(YearOf(dt)) \o <<"-">> \o Pad2(MonthOf(dt)) \o <<"-">> \o Pad2(DayOf(dt))

\* ---------------------------------------------------------------- strptime
\* ValueError of datetime.strptime
Unparsed == 0

\* %m is the regex 1[0-2]|0[1-9]|[1-9]: the alternatives that match at p,
\* in the order the regex engine tries them, as <<value, width>>
MonthAlts(s, p) ==
    LET two == IF p + 1 <= Len(s) /\ s[p] = "1" /\ s[p + 1] \in {"0", "1", "2"}
               THEN << <<10 + DigitVal(s[p + 1]), 2>> >>
               ELSE IF p + 1 <= Len(s) /\ s[p] = "0"
                       /\ IsDigit(s[p + 1]) /\ s[p + 1] # "0"
               THEN << <<DigitVal(s[p + 1]), 2>> >>
               ELSE << >>
        one == IF p <= Len(s) /\ IsDigit(s[p]) /\ s[p] # "0"
               THEN << <<DigitVal(s[p]), 1>> >>
               ELSE << >>
    IN  two \o one

\* %d is the regex 3[0-1]|[1-2]\d|0[1-9]|[1-9]| [1-9]: the first alternative
\* that matches at p, as <<value, width>>, or << >>
DayAlt(s, p) ==
    IF p + 1 <= Len(s) /\ s[p] = "3" /\ s[p + 1] \in {"0", "1"}
    THEN <<30 + DigitVal(s[p + 1]), 2>>
    ELSE IF p + 1 <= Len(s) /\ s[p] \in {"1", "2"} /\ IsDigit(s[p + 1])
    THEN <<10 * DigitVal(s[p]) + DigitVal(s[p + 1]), 2>>
    ELSE IF p + 1 <= Len(s) /\ s[p] \in {"0", " "}
            /\ IsDigit(s[p + 1]) /\ s[p + 1] # "0"
    THEN <<DigitVal(s[p + 1]), 2>>
    ELSE IF p <= Len(s) /\ IsDigit(s[p]) /\ s[p] # "0"
    THEN <<DigitVal(s[p]), 1>>
    ELSE << >>

\* datetime.strptime(s, fmt).date() for the four formats of the pipelines:
\*   hy = FALSE, withDay = TRUE    "%Y%m%d"
\*   hy = TRUE,  withDay = TRUE    "%Y-%m-%d"
\*   hy = FALSE, withDay = FALSE   "%Y%m"
\*   hy = TRUE,  withDay = FALSE   "%Y-%m"
\* The format regex is matched from the start of s (first match in the
\* engine's order), then the whole of s must have been consumed and the
\* fields must make a date.
Strptime(s, hy, withDay) ==
    LET okY    == Len(s) >= 4 /\ \A i \in 1..4 : IsDigit(s[i])
        year   == 1000 * DigitVal(s[1]) + 100 * DigitVal(s[2])
                    + 10 * DigitVal(s[3]) + DigitVal(s[4])
        sep1   == (~hy) \/ (Len(s) >= 5 /\ s[5] = "-")
        p1     == IF hy THEN 6 ELSE 5
        alts   == MonthAlts(s, p1)
        sep2(a) == (~hy) \/ (p1 + a[2] <= Len(s) /\ s[p1 + a[2]] = "-")
        pd(a)  == p1 + a[2] + (IF hy THEN 1 ELSE 0)
        full(a) == (~withDay) \/ (sep2(a) /\ DayAlt(s, pd(a)) # << >>)
        good   == {i \in 1..Len(alts) : full(alts[i])}
    IN  IF ~okY \/ ~sep1 \/ good = {}
        THEN Unparsed
        ELSE LET a    == alts[CHOOSE i \in good : \A j \in good : i <= j]
                 d    == IF withDay THEN DayAlt(s, pd(a)) ELSE <<1, 0>>
                 last == IF withDay THEN pd(a) + d[2] - 1 ELSE p1 + a[2] - 1
             IN  IF last # Len(s) \/ ~ValidYmd(year, a[1], d[1])
                 THEN Unparsed
                 ELSE ToOrdinal(year, a[1], d[1])

\* ------------------------------------------------------- Window Calculator
Spans == {"Weekly", "Monthly"}

\* compute_begin_end of src/FetchFuelRates/fetch_fuel_rates.py
legacy_compute_begin_end(eff_date, span) ==
    IF span = "Monthly"
    THEN <<ReplaceDay(eff_date, 1),
           ReplaceDay(eff_date, MonthRange(YearOf(eff_date), MonthOf(eff_date)))>>
    ELSE LET first == eff_date - 1 IN <<first, first + 6>>

\* compute_begin_end with a month taken as thirty days
ThirtyDay_compute_begin_end(eff_date, span) ==
    IF span = "Monthly"
    THEN <<ReplaceDay(eff_date, 1), ReplaceDay(eff_date, 1) + 29>>
    ELSE LET last == eff_date - 2 IN <<last - 6, last>>

\* compute_begin_end of src/fetch_fuel_rates.py
compute_begin_end(eff_date, span) ==
    IF span = "Monthly"
    THEN <<ReplaceDay(eff_date, 1),
           ReplaceDay(eff_date, MonthRange(YearOf(eff_date), MonthOf(eff_date)))>>
    ELSE LET last == eff_date - 2 IN <<last - 6, last>>

\* ------------------------------------------------------------------ inputs
\* rec.get("value") is None
None == -1

\* dt.date.today() of the runs explored: Tuesday 2024-01-09, Wednesday 2024-01-10
Todays == {ToOrdinal(2024, 1, 9), ToOrdinal(2024, 1, 10)}

\* --start_date values
StartTokens ==
    { <<"2", "0", "2", "4", "0", "1", "0", "8">>,
      <<"2", "0", "2", "4", "0", "1">>,
      <<"2", "0", "2", "4", "-", "0", "1", "-", "0", "8">>,
      <<"2", "0", "2", "4", "0", "1", "0">> }

\* START_DATE_OVERRIDE values; << >> is unset (or empty)
Overrides ==
    { << >>,
      <<"2", "0", "2", "4", "-", "0", "1", "-", "0", "1">>,
      <<"2", "0", "2", "4", "0", "1", "0", "8">> }

\* upstream [period, value] rows, values in hundredths
W_before == <<<<"2", "0", "2", "4", "0", "1", "0", "7">>, 390>>
W_thr    == <<<<"2", "0", "2", "4", "0", "1", "0", "8">>, 395>>
W_thrH   == <<<<"2", "0", "2", "4", "-", "0", "1", "-", "0", "8">>, 401>>
W_today  == <<<<"2", "0", "2", "4", "0", "1", "0", "9">>, 380>>
W_after  == <<<<"2", "0", "2", "4", "0", "1", "1", "0">>, 385>>
W_none   == <<<<"2", "0", "2", "4", "0", "1", "0", "8">>, None>>
W_bad    == <<<<"2", "0", "2", "4", "0", "1">>, 395>>

M_dec    == <<<<"2", "0", "2", "3", "1", "2">>, 340>>
M_jan    == <<<<"2", "0", "2", "4", "-", "0", "1">>, 350>>
M_janC   == <<<<"2", "0", "2", "4", "0", "1">>, 360>>
M_feb    == <<<<"2", "0", "2", "4", "-", "0", "2">>, 355>>
M_none   == <<<<"2", "0", "2", "4", "-", "0", "1">>, None>>
M_bad    == <<<<"2", "0", "2", "4", "-", "1", "3">>, 350>>

\* response bodies the upstream API may return for a series
Feeds(span) ==
    IF span = "Weekly"
    THEN { << >>,
           <<W_thr, W_thrH>>,
           <<W_before, W_thr, W_today, W_after>>,
           <<W_none, W_thr>>,
           <<W_thr, W_bad, W_today>> }
    ELSE { << >>,
           <<M_jan, M_janC>>,
           <<M_dec, M_janC, M_feb>>,
           <<M_none, M_jan>>,
           <<M_bad, M_jan>> }

\* ------------------------------------------------------------------- state
VARIABLES
    table,           \* dbo.EIA_DIESEL_FUEL_RATES, a bag of rows
    runs,            \* runs started so far
    site,            \* call site of the pipeline: "idle", "cli", "override",
                     \*   "weekly" (__init__ line 30), "monthly" (line 31)
    impl,            \* pipeline module executing: "root" or "legacy"
    sched,           \* <<weekly_start, monthly_start>> of the timer run
    calls,           \* pipeline invocations of this run, <<start_date, dry_run>>
    pc,              \* position in the pipeline
    today,           \* dt.date.today()
    override,        \* os.getenv("START_DATE_OVERRIDE") of the timer run
    start_date,
    dry_run,
    threshold_date,
    si,              \* index into SERIES
    raw,
    ri,              \* index into raw
    all_records,
    skipped,         \* "Skipping ... fetch" reports of this run, <<call, span>>
    connected,       \* pyodbc connection open
    ui,              \* index into records inside upsert_records
    error,           \* exception that left the pipeline, or "none"
    probe            \* last application of compute_begin_end on its own

pipe == <<pc, start_date, dry_run, threshold_date, si, raw, ri, all_records,
          skipped, connected, ui, error>>

vars == <<table, runs, site, impl, sched, calls, today, override, pipe, probe>>

\* SERIES.items() in insertion order
SERIES == <<"Weekly", "Monthly">>

NoDate == 0

NoProbe == [eff_date |-> NoDate, span |-> "none", impl |-> "none",
            begin_dt |-> NoDate, end_dt |-> NoDate]

Init ==
    /\ table = EmptyBag
    /\ runs = 0
    /\ site = "idle"
    /\ impl = "root"
    /\ sched = << << >>, << >> >>
    /\ calls = << >>
    /\ pc = "idle"
    /\ today \in Todays
    /\ override = << >>
    /\ start_date = << >>
    /\ dry_run = FALSE
    /\ threshold_date = NoDate
    /\ si = 1
    /\ raw = << >>
    /\ ri = 1
    /\ all_records = << >>
    /\ skipped = {}
    /\ connected = FALSE
    /\ ui = 1
    /\ error = "none"
    /\ probe = NoProbe

\* ------------------------------------------------------------ orchestrator
\* get_prev_week_and_month()
get_prev_week_and_month(td) ==
    LET prev_monday      == td - (Weekday(td) + 7)
        first_this_month == ReplaceDay(td, 1)
        last_month       == first_this_month - 1
        first_last_month == ReplaceDay(last_month, 1)
    IN  <<IsoFormat(prev_monday), IsoFormat(first_last_month)>>

\* no pipeline is executing and no call of the run is left
RunOver ==
    \/ pc = "idle"
    \/ pc = "raised"
    \/ pc = "returned" /\ site # "weekly"

\* entry of main(start_date, dry_run) of module im
Enter(im, sd, dr) ==
    /\ impl' = im
    /\ start_date' = sd
    /\ dry_run' = dr
    /\ pc' = IF im = "root" THEN "threshold" ELSE "fetch"
    /\ threshold_date' = NoDate
    /\ si' = 1
    /\ raw' = << >>
    /\ ri' = 1
    /\ all_records' = << >>
    /\ connected' = FALSE
    /\ ui' = 1
    /\ error' = "none"

\* FetchFuelRates.main up to its first call of fetch_main.  The absolute
\* import "from fetch_fuel_rates import main" binds fetch_main to the module
\* that comes first on sys.path: the top-level one where the application root
\* leads the path, the sibling of __init__.py where the function directory does.
TimerMain ==
    /\ RunOver
    /\ runs < MaxRuns
    /\ runs' = runs + 1
    /\ \E td \in Todays, ov \in Overrides, im \in {"root", "legacy"} :
        /\ today' = td
        /\ override' = ov
        /\ IF ov # << >>
           THEN /\ site' = "override"
                /\ sched' = << << >>, << >> >>
                /\ calls' = << <<ov, TRUE>> >>
                /\ Enter(im, ov, TRUE)
           ELSE /\ site' = "weekly"
                /\ sched' = get_prev_week_and_month(td)
                /\ calls' = << <<sched'[1], FALSE>> >>
                /\ Enter(im, sched'[1], FALSE)
    /\ skipped' = {}
    /\ UNCHANGED <<table, probe>>

\* FetchFuelRates.main going on to its second call whatever the first did
TimerSecondAfterError ==
    /\ pc \in {"returned", "raised"}
    /\ site = "weekly"
    /\ site' = "monthly"
    /\ calls' = Append(calls, <<sched[2], FALSE>>)
    /\ Enter(impl, sched[2], FALSE)
    /\ UNCHANGED <<table, runs, sched, today, override, skipped, probe>>

\* FetchFuelRates.main after the first call returned
TimerSecond ==
    /\ pc = "returned"
    /\ site = "weekly"
    /\ site' = "monthly"
    /\ calls' = Append(calls, <<sched[2], FALSE>>)
    /\ Enter(impl, sched[2], FALSE)
    /\ UNCHANGED <<table, runs, sched, today, override, skipped, probe>>

\* the __main__ block of either pipeline module
CliMain ==
    /\ RunOver
    /\ runs < MaxRuns
    /\ runs' = runs + 1
    /\ \E td \in Todays, im \in {"root", "legacy"},
          sd \in StartTokens, dr \in BOOLEAN :
        /\ today' = td
        /\ override' = << >>
        /\ site' = "cli"
        /\ sched' = << << >>, << >> >>
        /\ calls' = << <<sd, dr>> >>
        /\ Enter(im, sd, dr)
    /\ skipped' = {}
    /\ UNCHANGED <<table, probe>>

\* ---------------------------------------------------------------- pipeline
\* the threshold date of main, or Unparsed where main raises ValueError
threshold_of(sd) ==
    IF Len(sd) = 8
    THEN Strptime(sd, FALSE, TRUE)
    ELSE IF Len(sd) = 6
    THEN LET d == Strptime(sd, FALSE, FALSE)
         IN  IF d = Unparsed THEN Unparsed ELSE ReplaceDay(d, 1)
    ELSE Unparsed

\* main: "Determine threshold date"
Threshold ==
    /\ pc = "threshold"
    /\ IF threshold_of(start_date) = Unparsed
       THEN /\ error' = "ValueError"
            /\ pc' = "raised"
            /\ UNCHANGED threshold_date
       ELSE /\ threshold_date' = threshold_of(start_date)
            /\ pc' = "fetch"
            /\ UNCHANGED error
    /\ UNCHANGED <<table, runs, site, impl, sched, calls, today, override,
                   start_date, dry_run, si, raw, ri, all_records, skipped,
                   connected, ui, probe>>

\* position after the body of the series loop for SERIES[i]
AfterSeries(i) == IF i < Len(SERIES) THEN "fetch" ELSE "sink"

\* position after the body of the row loop for raw[i] of r
AfterRow(r, i, s) == IF i < Len(r) THEN "rows" ELSE AfterSeries(s)

\* main: one turn of the series loop up to the row loop, get_eia_data
\* returning a body
FetchOk ==
    /\ pc = "fetch"
    /\ \E body \in Feeds(SERIES[si]) :
        /\ raw' = body
        /\ ri' = 1
        /\ pc' = IF body = << >> THEN AfterSeries(si) ELSE "rows"
        /\ si' = IF body = << >> THEN si + 1 ELSE si
    /\ UNCHANGED <<table, runs, site, impl, sched, calls, today, override,
                   start_date, dry_run, threshold_date, all_records, skipped,
                   connected, ui, error, probe>>

\* main: get_eia_data raising requests.HTTPError from raise_for_status
FetchHTTPError ==
    /\ pc = "fetch"
    /\ IF impl = "root"
       THEN /\ skipped' = skipped \cup {<<Len(calls), SERIES[si]>>}
            /\ si' = si + 1
            /\ pc' = AfterSeries(si)
            /\ UNCHANGED error
       ELSE /\ error' = "HTTPError"
            /\ pc' = "raised"
            /\ UNCHANGED <<skipped, si>>
    /\ UNCHANGED <<table, runs, site, impl, sched, calls, today, override,
                   start_date, dry_run, threshold_date, raw, ri, all_records,
                   connected, ui, probe>>

\* "Parse period string" of src/fetch_fuel_rates.py
ParsePeriod(period, span) ==
    IF span = "Weekly"
    THEN IF Contains(period, "-")
         THEN Strptime(period, TRUE, TRUE)
         ELSE Strptime(period, FALSE, TRUE)
    ELSE IF Contains(period, "-")
         THEN Strptime(period, TRUE, FALSE)
         ELSE Strptime(period, FALSE, FALSE)

\* "Parse API date string" of src/FetchFuelRates/fetch_fuel_rates.py
legacy_ParsePeriod(date_str, span) ==
    IF span = "Weekly"
    THEN Strptime(date_str, FALSE, TRUE)
    ELSE Strptime(date_str, FALSE, FALSE)

\* the filter with both bounds exclusive
StrictOutOfWindow(eff, th, td) == eff <= th \/ eff >= td

\* "Filter by threshold and today": the row is dropped
OutOfWindow(eff, th, td) == eff < th \/ eff > td

\* the dict appended to all_records
Observation(eff, span, price, window) ==
    [eff_date |-> eff, span |-> span, rate |-> price,
     begin_dt |-> window[1], end_dt |-> window[2]]

\* the row loop leaves raw[ri] behind
NextRow ==
    /\ ri' = ri + 1
    /\ pc' = AfterRow(raw, ri, si)
    /\ si' = IF ri < Len(raw) THEN si ELSE si + 1

\* main of src/fetch_fuel_rates.py: one turn of the row loop
Row ==
    /\ pc = "rows"
    /\ impl = "root"
    /\ LET period == raw[ri][1]
           price  == raw[ri][2]
           span   == SERIES[si]
           eff    == ParsePeriod(period, span)
       IN  IF price = None
           THEN NextRow /\ UNCHANGED <<all_records, error>>
           ELSE IF eff = Unparsed
           THEN /\ error' = "ValueError"
                /\ pc' = "raised"
                /\ UNCHANGED <<all_records, ri, si>>
           ELSE IF OutOfWindow(eff, threshold_date, today)
           THEN NextRow /\ UNCHANGED <<all_records, error>>
           ELSE /\ all_records' = Append(all_records,
                      Observation(eff, span, price, compute_begin_end(eff, span)))
                /\ NextRow
                /\ UNCHANGED error
    /\ UNCHANGED <<table, runs, site, impl, sched, calls, today, override,
                   start_date, dry_run, threshold_date, raw, skipped,
                   connected, ui, probe>>

\* main of src/FetchFuelRates/fetch_fuel_rates.py: one turn of the row loop
LegacyRow ==
    /\ pc = "rows"
    /\ impl = "legacy"
    /\ LET date_str == raw[ri][1]
           price    == raw[ri][2]
           span     == SERIES[si]
           eff      == legacy_ParsePeriod(date_str, span)
       IN  IF eff = Unparsed
           THEN /\ error' = "ValueError"
                /\ pc' = "raised"
                /\ UNCHANGED <<all_records, ri, si>>
           ELSE IF price = None
           THEN /\ error' = "TypeError"
                /\ pc' = "raised"
                /\ UNCHANGED <<all_records, ri, si>>
           ELSE /\ all_records' = Append(all_records,
                      Observation(eff, span, price,
                                  legacy_compute_begin_end(eff, span)))
                /\ NextRow
                /\ UNCHANGED error
    /\ UNCHANGED <<table, runs, site, impl, sched, calls, today, override,
                   start_date, dry_run, threshold_date, raw, skipped,
                   connected, ui, probe>>

\* main connecting without looking at dry_run
SinkIgnoringDryRun ==
    /\ pc = "sink"
    /\ connected' = TRUE
    /\ ui' = 1
    /\ pc' = "upsert"
    /\ UNCHANGED <<table, runs, site, impl, sched, calls, today, override,
                   start_date, dry_run, threshold_date, si, raw, ri,
                   all_records, skipped, error, probe>>

\* main: the dry-run report, or pyodbc.connect succeeding
Sink ==
    /\ pc = "sink"
    /\ IF dry_run
       THEN /\ pc' = "returned"
            /\ UNCHANGED <<connected, ui>>
       ELSE /\ connected' = TRUE
            /\ ui' = 1
            /\ pc' = "upsert"
    /\ UNCHANGED <<table, runs, site, impl, sched, calls, today, override,
                   start_date, dry_run, threshold_date, si, raw, ri,
                   all_records, skipped, error, probe>>

\* main: pyodbc.connect raising
ConnectFails ==
    /\ pc = "sink"
    /\ ~dry_run
    /\ error' = "pyodbc.Error"
    /\ pc' = "raised"
    /\ UNCHANGED <<table, runs, site, impl, sched, calls, today, override,
                   start_date, dry_run, threshold_date, si, raw, ri,
                   all_records, skipped, connected, ui, probe>>

\* the row of the table the MERGE statement matches rec against
Matched(t, rec) ==
    \E row \in BagToSet(t) :
        row.eff_date = rec.eff_date /\ row.span = rec.span

\* an INSERT without the ON condition
InsertAlways(t, rec) == t (+) SetToBag({rec})

\* the MERGE statement: WHEN NOT MATCHED THEN INSERT
Merge(t, rec) == IF Matched(t, rec) THEN t ELSE t (+) SetToBag({rec})

\* upsert_records: one turn of its loop, cursor.execute succeeding
\* (autocommit: the insert is durable when execute returns)
Upsert ==
    /\ pc = "upsert"
    /\ ui <= Len(all_records)
    /\ table' = Merge(table, all_records[ui])
    /\ ui' = ui + 1
    /\ UNCHANGED <<runs, site, impl, sched, calls, today, override, pc,
                   start_date, dry_run, threshold_date, si, raw, ri,
                   all_records, skipped, connected, error, probe>>

\* upsert_records: cursor.execute raising
UpsertFails ==
    /\ pc = "upsert"
    /\ ui <= Len(all_records)
    /\ error' = "pyodbc.Error"
    /\ pc' = "raised"
    /\ UNCHANGED <<table, runs, site, impl, sched, calls, today, override,
                   start_date, dry_run, threshold_date, si, raw, ri,
                   all_records, skipped, connected, ui, probe>>

\* main: cursor.close(), cnxn.close() and return
Close ==
    /\ pc = "upsert"
    /\ ui > Len(all_records)
    /\ connected' = FALSE
    /\ pc' = "returned"
    /\ UNCHANGED <<table, runs, site, impl, sched, calls, today, override,
                   start_date, dry_run, threshold_date, si, raw, ri,
                   all_records, skipped, ui, error, probe>>

Next ==
    \/ CliMain
    \/ TimerMain
    \/ TimerSecond
    \/ Threshold
    \/ FetchOk
    \/ FetchHTTPError
    \/ Row
    \/ LegacyRow
    \/ Sink
    \/ ConnectFails
    \/ Upsert
    \/ UpsertFails
    \/ Close

Spec == Init /\ [][Next]_vars

\* ------------------------------------------- the window calculator by itself
\* the dates of MinYear..MaxYear
Dates ==
    {ToOrdinal(d[1], d[2], d[3]) :
        d \in {x \in (MinYear..MaxYear) \X (1..12) \X (1..31) :
                   ValidYmd(x[1], x[2], x[3])}}

\* no pipeline runs; an effective date, a span and a module are given
InitWindow ==
    /\ table = EmptyBag
    /\ runs = 0
    /\ site = "idle"
    /\ impl = "root"
    /\ sched = << << >>, << >> >>
    /\ calls = << >>
    /\ pc = "idle"
    /\ today \in Todays
    /\ override = << >>
    /\ start_date = << >>
    /\ dry_run = FALSE
    /\ threshold_date = NoDate
    /\ si = 1
    /\ raw = << >>
    /\ ri = 1
    /\ all_records = << >>
    /\ skipped = {}
    /\ connected = FALSE
    /\ ui = 1
    /\ error = "none"
    /\ probe \in [eff_date : Dates, span : Spans, impl : {"root", "legacy"},
                  begin_dt : {NoDate}, end_dt : {NoDate}]

\* compute_begin_end applied to the given date and span
ComputeWindow ==
    /\ probe.span \in Spans
    /\ probe.begin_dt = NoDate
    /\ LET w == IF probe.impl = "root"
                THEN compute_begin_end(probe.eff_date, probe.span)
                ELSE legacy_compute_begin_end(probe.eff_date, probe.span)
       IN  probe' = [probe EXCEPT !.begin_dt = w[1], !.end_dt = w[2]]
    /\ UNCHANGED <<table, runs, site, impl, sched, calls, today, override,
                   pipe>>

NextWindow == ComputeWindow

SpecWindow == InitWindow /\ [][NextWindow]_vars

\* ================================================================== claims
RecIdx == 1..Len(all_records)

Rows == BagToSet(table)

\* a pipeline invocation is under way or over
Invoked == pc # "idle"

\* the timer run made its scheduled (not override) invocations
Scheduled == site \in {"weekly", "monthly"}

\* rec is stored as a row, field for field
Stored(rec) == rec \in Rows

\* ---------------------------------------------------------------------- C1
\* C1: an HTTP failure of one series never leaves the pipeline (the run
\* does not abort), the failed series contributes no record, and a run that
\* returns after persisting has every collected record stored under its key.
C1_PartialFailureIsolation ==
    /\ error # "HTTPError"
    /\ \A i \in RecIdx : <<Len(calls), all_records[i].span>> \notin skipped
    /\ (pc = "returned" /\ ~dry_run) =>
           \A i \in RecIdx : Matched(table, all_records[i])

\* ---------------------------------------------------------------------- C2
\* C2: a scheduled run whose fetches all succeeded and whose storage never
\* failed ends with exactly two invocations, (weekly_start, dry_run=false)
\* then (monthly_start, dry_run=false), the second one returned normally
\* after both series were processed.
C2_ScheduledRunCompletes ==
    (/\ Scheduled
     /\ RunOver
     /\ skipped = {}
     /\ error \notin {"HTTPError", "pyodbc.Error"})
    => /\ error = "none"
       /\ pc = "returned"
       /\ site = "monthly"
       /\ calls = << <<sched[1], FALSE>>, <<sched[2], FALSE>> >>
       /\ si = Len(SERIES) + 1

\* ---------------------------------------------------------------------- C3
\* the table holds at most one row per (effective_date, span) key
C3_UniqueKeys ==
    \A r \in Rows :
        /\ CopiesIn(r, table) = 1
        /\ \A q \in Rows :
               (q.eff_date = r.eff_date /\ q.span = r.span) => q = r

\* an execute on an Observation whose key is stored changes nothing in the
\* table and goes on to the next record
C3_MatchedIsNoOp ==
    (/\ pc = "upsert"
     /\ ui <= Len(all_records)
     /\ Matched(table, all_records[ui])
     /\ ui' = ui + 1)
    => (table' = table /\ error' = "none" /\ pc' = "upsert")

\* C3: the conditional insert is idempotent: an Observation whose key is
\* already stored adds no row, leaves the stored row as it is and raises
\* nothing, so the table never holds two rows with one key.
C3_IdempotentInsert == []C3_UniqueKeys /\ [][C3_MatchedIsNoOp]_vars

\* an execute has just met a stored key carrying another rate, and the stored
\* rate is still there
C3_Witness ==
    /\ pc = "upsert"
    /\ ui > 1
    /\ \E row \in Rows :
        /\ row.eff_date = all_records[ui - 1].eff_date
        /\ row.span = all_records[ui - 1].span
        /\ row.rate # all_records[ui - 1].rate

\* ---------------------------------------------------------------------- C4
C4_OverrideInvokesOnce ==
    /\ site = "override" =>
          /\ override # << >>
          /\ calls = << <<override, TRUE>> >>
          /\ start_date = override
          /\ dry_run
    /\ Scheduled => override = << >>

C4_NoConnection == (Invoked /\ dry_run) => ~connected

C4_TableUntouched == dry_run => table' = table

\* C4: with an override the timer makes exactly one invocation, with that
\* date and dry_run=true, and none of the scheduled ones; an invocation with
\* dry_run=true opens no connection and leaves the table as it is.
C4_DryRunNeverPersists ==
    /\ [](C4_OverrideInvokesOnce /\ C4_NoConnection)
    /\ [][C4_TableUntouched]_vars

\* an override dry run collected records and returned
C4_Witness ==
    /\ site = "override"
    /\ dry_run
    /\ pc = "returned"
    /\ Len(all_records) > 0

\* ---------------------------------------------------------------------- C5
InWindow(eff) == threshold_date <= eff /\ eff <= today

\* the row raw[ri] is kept by the Record Filter
C5_Keep ==
    /\ raw[ri][2] # None
    /\ InWindow(ParsePeriod(raw[ri][1], SERIES[si]))

\* one turn of the row loop on a row with a parseable period appends the
\* Observation exactly when the row is kept
C5_RowStep ==
    (/\ impl = "root"
     /\ pc = "rows"
     /\ ParsePeriod(raw[ri][1], SERIES[si]) # Unparsed)
    => /\ C5_Keep =>
            /\ Len(all_records') = Len(all_records) + 1
            /\ all_records'[Len(all_records')].eff_date
                   = ParsePeriod(raw[ri][1], SERIES[si])
            /\ all_records'[Len(all_records')].rate = raw[ri][2]
            /\ all_records'[Len(all_records')].span = SERIES[si]
       /\ ~C5_Keep => all_records' = all_records

C5_Collected ==
    impl = "root" =>
        \A i \in RecIdx :
            /\ all_records[i].rate # None
            /\ InWindow(all_records[i].eff_date)

\* a row written by the pipeline is a collected Observation
C5_Persisted ==
    (impl = "root" /\ table' # table) =>
        \E i \in RecIdx :
            /\ table' = table (+) SetToBag({all_records[i]})
            /\ all_records[i].rate # None
            /\ InWindow(all_records[i].eff_date)

\* C5: in the pipeline of src/fetch_fuel_rates.py a row with a parseable
\* period is collected iff its value is not null and threshold_date <=
\* effective_date <= today; nothing collected or written lies outside.
C5_FilterKeepPredicate ==
    /\ []C5_Collected
    /\ [][C5_RowStep /\ C5_Persisted]_vars

\* the series with rows one day before the threshold, on the threshold, on
\* today and one day after today has been filtered: the two inner ones are in
\* all_records, the two outer ones are not
C5_Witness ==
    /\ impl = "root"
    /\ raw = <<W_before, W_thr, W_today, W_after>>
    /\ ri = 5
    /\ threshold_date = ToOrdinal(2024, 1, 8)
    /\ today = ToOrdinal(2024, 1, 9)
    /\ Len(all_records) = 2
    /\ all_records[1].eff_date = threshold_date
    /\ all_records[2].eff_date = today

\* ---------------------------------------------------------------------- C6
RECURSIVE StripSeparators(_)
StripSeparators(s) ==
    IF s = << >> THEN << >>
    ELSE IF IsDigit(Head(s)) THEN <<Head(s)>> \o StripSeparators(Tail(s))
    ELSE StripSeparators(Tail(s))

\* main raised on its start token
StartRejected ==
    pc = "raised" /\ error = "ValueError" /\ threshold_date = NoDate

\* C6: the pipeline of src/fetch_fuel_rates.py rejects its start token
\* exactly when the separator-stripped token has neither 6 nor 8 digits, and
\* then nothing was fetched and no connection was opened; an accepted token
\* of 6 digits gives a threshold on day 1.
C6_StartTokenHandling ==
    (impl = "root" /\ pc \notin {"idle", "threshold"}) =>
        /\ StartRejected <=> Len(StripSeparators(start_date)) \notin {6, 8}
        /\ StartRejected =>
              (raw = << >> /\ all_records = << >> /\ ~connected)
        /\ (~StartRejected /\ Len(StripSeparators(start_date)) = 6) =>
              DayOf(threshold_date) = 1

\* ---------------------------------------------------------------------- C7
\* the row loop stands at a row whose period matches no accepted pattern
MalformedRow ==
    /\ impl = "root"
    /\ ri \in 1..Len(raw)
    /\ raw[ri][2] # None
    /\ ParsePeriod(raw[ri][1], SERIES[si]) = Unparsed

\* C7: a row with a malformed period is skipped and the run goes on: the
\* pipeline never ends on such a row.
C7_MalformedPeriodSkipped == MalformedRow => pc # "raised"

\* ---------------------------------------------------------------------- C8
WeeklyWindow(r) ==
    r.span = "Weekly" =>
        (r.end_dt = r.eff_date - 2 /\ r.begin_dt = r.end_dt - 6)

\* C8: every Weekly Observation collected or stored by either pipeline has
\* end_date = effective_date - 2 days and begin_date = end_date - 6 days.
C8_WeeklyWindowEverywhere ==
    /\ \A i \in RecIdx : WeeklyWindow(all_records[i])
    /\ \A r \in Rows : WeeklyWindow(r)

\* ---------------------------------------------------------------------- C9
\* C9: for a Monthly date compute_begin_end (either module) gives the first
\* and the last calendar day of the date's month: begin is day 1 of the same
\* month, end is in the same month and the day after it is a day 1, and
\* begin <= effective <= end; February 2024 ends on the 29th.
C9_MonthlyWindow ==
    (probe.span = "Monthly" /\ probe.begin_dt # NoDate) =>
        /\ FromOrdinal(probe.begin_dt)
               = <<YearOf(probe.eff_date), MonthOf(probe.eff_date), 1>>
        /\ YearOf(probe.end_dt) = YearOf(probe.eff_date)
        /\ MonthOf(probe.end_dt) = MonthOf(probe.eff_date)
        /\ DayOf(probe.end_dt + 1) = 1
        /\ probe.begin_dt <= probe.eff_date
        /\ probe.eff_date <= probe.end_dt
        /\ (YearOf(probe.eff_date) = 2024 /\ MonthOf(probe.eff_date) = 2)
              => probe.end_dt = ToOrdinal(2024, 2, 29)

\* the window of 2024-02-01 has been computed by src/fetch_fuel_rates.py
C9_Witness ==
    /\ probe.span = "Monthly"
    /\ probe.impl = "root"
    /\ probe.eff_date = ToOrdinal(2024, 2, 1)
    /\ probe.end_dt = ToOrdinal(2024, 2, 29)

\* --------------------------------------------------------------------- C10
\* a failing execute writes nothing and ends the pipeline
C10_FailureAborts ==
    (pc = "upsert" /\ pc' = "raised") =>
        (table' = table /\ error' = "pyodbc.Error" /\ ui' = ui)

\* after the pipeline raised on storage, the run does nothing more: the only step left
\* is the start of another run, and it writes nothing
C10_NothingAfterAbort ==
    (pc = "raised" /\ error = "pyodbc.Error")
        => (runs' = runs + 1 /\ table' = table)

\* the records before the one being executed are stored, also after the abort
C10_EarlierInsertsRemain ==
    (pc = "upsert" \/ (pc = "raised" /\ error = "pyodbc.Error" /\ connected))
    => \A j \in 1..(ui - 1) : Matched(table, all_records[j])

\* each execute commits by itself: the table grows by at most the one record
C10_OneRowPerExecute ==
    table' # table =>
        (pc = "upsert" /\ ui' = ui + 1
           /\ table' = table (+) SetToBag({all_records[ui]}))

\* C10: a failing execute on the k-th record aborts the run there: the rows
\* inserted for the records before it stay, no later record is written, and
\* the timer makes no further invocation.
C10_PersistenceFailureFatal ==
    /\ []C10_EarlierInsertsRemain
    /\ [][C10_FailureAborts /\ C10_NothingAfterAbort /\ C10_OneRowPerExecute]_vars

\* the first scheduled invocation failed on its second record: the first
\* record is stored, the second is not, and the monthly invocation is not made
C10_Witness ==
    /\ site = "weekly"
    /\ pc = "raised"
    /\ error = "pyodbc.Error"
    /\ ui = 2
    /\ Len(all_records) >= 2
    /\ Stored(all_records[1])
    /\ ~Matched(table, all_records[2])
    /\ Len(calls) = 1

====
